---------------------------- MODULE Spec2Model ----------------------------
(***************************************************************************)
(* FlightController (src/flight_controller.py): the low-level controller   *)
(* that turns a normalised desired action and a normalised current state   *)
(* into four RC commands through four PID controllers.                     *)
(*                                                                         *)
(* Numbers.  The program computes in floating point; the model computes    *)
(* exactly, in fixed units:                                                *)
(*   - a normalised value v is the integer 100*v (hundredths, One = 1.0);  *)
(*   - dt is the integer 100*dt (hundredths of a second; 1 is 0.01 s);     *)
(*   - a gain K is the integer 10*K (tenths);                              *)
(*   - an integral is in hundredths * hundredths of a second;              *)
(*   - a PID output is a fraction <<num, den>> with den > 0;               *)
(*   - a raw RC value is a mixed number <<whole, num, den>>, equal to      *)
(*     whole + num/den with 0 <= num < den.                                *)
(* Floating-point rounding is not modelled.                                *)
(*                                                                         *)
(* pid_controller.py (class PIDController) is imported by the source and   *)
(* is not part of it; PIDController, PID_reset and PID_compute are written *)
(* from section 4.1 of the specification.                                  *)
(***************************************************************************)
EXTENDS Integers, Sequences, FiniteSets, TLC

VARIABLES
    throttle_pid,   \* self.throttle_pid
    roll_pid,       \* self.roll_pid
    pitch_pid,      \* self.pitch_pid
    yaw_pid,        \* self.yaw_pid
    ff_throttle,    \* self.ff_throttle
    result,         \* the vector the last operation returned, <<>> if none
    corr,           \* the four PID outputs computed by that operation, <<>> if none
    lastOp,         \* "init", "reset", "compute" (returned) or "raise"
    hist,           \* the calls that returned since the last reset / construction
    cleared,        \* whether the last reset found integral or previous_error # 0
    calls,          \* number of compute_rc_commands calls that returned
    \* keyboard_controller (src/drone.py)
    CMDS,           \* the RC values by channel name
    kbMode,         \* "connecting", "running", "quit" or "error" (returned 1)
    sent,           \* the list handed to send_RAW_RC in the last iteration, <<>> if none
    kbKey,          \* the value getch() returned in the last iteration
    presses,        \* number of iterations in which getch() returned a key
    \* the command server (src/server.py) and a client (src/client.py)
    rc_channels,    \* the module-level rc_channels dictionary
    srvPc,          \* "accept", "recv" (blocked in recv), "arm" or "disarm" (in that loop)
    link,           \* the connection: "none", "pending", "open", "closed" (by the
                    \* server) or "left" (closed by the client)
    c2s,            \* commands sent by the client and not yet received
    s2c,            \* response bytes sent by the server and not yet received
    cliPc,          \* "start", "input", "recv" (blocked in recv) or "done"
    got,            \* what the client's last recv returned, "none" before
    answered,       \* whether the server sent bytes for the last command it
                    \* received: "idle" (no command yet), "yes" or "no"
    nCmds           \* number of commands the client has sent

fcVars == <<throttle_pid, roll_pid, pitch_pid, yaw_pid, ff_throttle,
            result, corr, lastOp, hist, cleared, calls>>

kbVars == <<CMDS, kbMode, sent, kbKey, presses>>

srvVars == <<rc_channels, srvPc, link, c2s, s2c, cliPc, got, answered, nCmds>>

vars == <<fcVars, kbVars, srvVars>>

---------------------------------------------------------------------------
(* Units and bounds *)

\* 1.0 in hundredths: the literal 1 of `desired_yaw_norm - 1`
One == 100

\* total number of compute_rc_commands calls explored in one behaviour
MaxCalls == 2

\* number of key presses explored in one behaviour of the keyboard loop
MaxKeys == 3

\* number of commands the client sends in one behaviour
MaxCmds == 3

Abs(x) == IF x < 0 THEN -x ELSE x

RECURSIVE Gcd(_, _)
Gcd(a, b) == IF b = 0 THEN a ELSE Gcd(b, a % b)

\* the fraction n/d (d # 0) in lowest terms with a positive denominator
Frac(n, d) ==
    LET g == Gcd(Abs(n), Abs(d))
        s == IF d < 0 THEN -1 ELSE 1
    IN  <<(s * n) \div g, (s * d) \div g>>

---------------------------------------------------------------------------
(* PIDController, from the specification, section 4.1 *)

\* PIDController(Kp, Ki, Kd): gains in tenths; setpoint, integral and
\* previous error start at 0
PIDController(Kp, Ki, Kd) ==
    [Kp |-> Kp, Ki |-> Ki, Kd |-> Kd,
     setpoint |-> 0, integral |-> 0, previous_error |-> 0]

\* reset(): integral and previous_error to 0; gains and setpoint untouched
PID_reset(pid) ==
    [pid EXCEPT !.integral = 0, !.previous_error = 0]

\* a variant that replaces dt == 0 by the smallest step instead of dropping
\* the derivative term
PID_compute_eps(pid, measured, dt) ==
    LET error    == pid.setpoint - measured
        d        == IF dt = 0 THEN 1 ELSE dt
        integral == pid.integral + error * dt
        n        == pid.Kp * error * 100 * d + pid.Ki * integral * d
                    + pid.Kd * (error - pid.previous_error) * 10000
        den      == 100000 * d
    IN  [pid    |-> [pid EXCEPT !.integral = integral, !.previous_error = error],
         output |-> Frac(n, den)]

\* compute(measured, dt):
\*   error = setpoint - measured; integral += error * dt;
\*   derivative = (error - previous_error) / dt, 0 when dt == 0;
\*   output = Kp*error + Ki*integral + Kd*derivative; previous_error = error.
\* In model units, for dt # 0,
\*   output = (Kp*error*100*dt + Ki*integral*dt + Kd*(error - previous_error)*10^4)
\*            / (10^5 * dt)
\* and for dt = 0, output = (Kp*error*100 + Ki*integral) / 10^5.
PID_compute(pid, measured, dt) ==
    LET error    == pid.setpoint - measured
        integral == pid.integral + error * dt
        n        == IF dt = 0
                    THEN pid.Kp * error * 100 + pid.Ki * integral
                    ELSE pid.Kp * error * 100 * dt + pid.Ki * integral * dt
                         + pid.Kd * (error - pid.previous_error) * 10000
        den      == IF dt = 0 THEN 100000 ELSE 100000 * dt
    IN  [pid    |-> [pid EXCEPT !.integral = integral, !.previous_error = error],
         output |-> Frac(n, den)]

---------------------------------------------------------------------------
(* FlightController *)

\* reset() that resets the roll controller twice and the pitch controller
\* never
reset_skip_pitch(t, r, p, y) ==
    [throttle |-> PID_reset(t), roll |-> PID_reset(PID_reset(r)),
     pitch |-> p, yaw |-> PID_reset(y)]

\* reset() that forgets the yaw controller
reset_skip_yaw(t, r, p, y) ==
    [throttle |-> PID_reset(t), roll |-> PID_reset(r),
     pitch |-> PID_reset(p), yaw |-> y]

\* reset(): resets the four PID controllers
reset(t, r, p, y) ==
    [throttle |-> PID_reset(t), roll |-> PID_reset(r),
     pitch |-> PID_reset(p), yaw |-> PID_reset(y)]

\* the yaw branch with its two arms exchanged
yaw_setpoint_swapped(desired_yaw_norm, current_yaw_norm) ==
    LET clockwise_yaw_distance == Abs(desired_yaw_norm - current_yaw_norm)
        counterclockwise_yaw_distance ==
            Abs((desired_yaw_norm - One) - current_yaw_norm)
    IN  IF clockwise_yaw_distance < counterclockwise_yaw_distance
        THEN desired_yaw_norm - One
        ELSE desired_yaw_norm

\* the setpoint the yaw branch of compute_rc_commands assigns
yaw_setpoint(desired_yaw_norm, current_yaw_norm) ==
    LET clockwise_yaw_distance == Abs(desired_yaw_norm - current_yaw_norm)
        counterclockwise_yaw_distance ==
            Abs((desired_yaw_norm - One) - current_yaw_norm)
    IN  IF clockwise_yaw_distance < counterclockwise_yaw_distance
        THEN desired_yaw_norm
        ELSE desired_yaw_norm - One

\* base + 500 * command as a mixed number <<whole, num, den>>
Affine(base, command) ==
    LET q == command[1] \div command[2]
        r == command[1] % command[2]
    IN  <<base + 500 * q + ((500 * r) \div command[2]),
          (500 * r) % command[2], command[2]>>

\* base - 500 * command
AffineNeg(base, command) == Affine(base, <<-command[1], command[2]>>)

\* the conversion with the throttle centred like the other channels
rc_raw_centered(throttle_command, roll_command, pitch_command, yaw_command) ==
    <<Affine(1500, throttle_command), Affine(1500, roll_command),
      Affine(1500, pitch_command), Affine(1500, yaw_command)>>

\* the conversion with the throttle correction subtracted
rc_raw_negated(throttle_command, roll_command, pitch_command, yaw_command) ==
    <<AffineNeg(1260, throttle_command), Affine(1500, roll_command),
      Affine(1500, pitch_command), Affine(1500, yaw_command)>>

\* the conversion with roll and pitch in each other's place
rc_raw_swapped(throttle_command, roll_command, pitch_command, yaw_command) ==
    <<Affine(1260, throttle_command), Affine(1500, pitch_command),
      Affine(1500, roll_command), Affine(1500, yaw_command)>>

\* rc_throttle, rc_roll, rc_pitch, rc_yaw
rc_raw(throttle_command, roll_command, pitch_command, yaw_command) ==
    <<Affine(1260, throttle_command), Affine(1500, roll_command),
      Affine(1500, pitch_command), Affine(1500, yaw_command)>>

\* a clip that enforces the upper limit only
np_clip_upper(x, lo, hi) ==
    IF x[1] >= hi THEN <<hi, 0, 1>> ELSE x

\* np.clip(x, lo, hi) of one element
np_clip(x, lo, hi) ==
    IF x[1] < lo THEN <<lo, 0, 1>>
    ELSE IF x[1] >= hi THEN <<hi, 0, 1>>
    ELSE x

\* astype(int) of one element: truncation toward zero
astype_int(x) ==
    IF x[1] >= 0 \/ x[2] = 0 THEN x[1] ELSE x[1] + 1

\* compute_rc_commands with the throttle PID fed the roll measurement
compute_rc_commands_wrong_axis(t, r, p, y, high_level_action, state_goal, dt) ==
    LET tc == PID_compute([t EXCEPT !.setpoint = high_level_action[1]], state_goal[2], dt)
        rc == PID_compute([r EXCEPT !.setpoint = high_level_action[2]], state_goal[2], dt)
        pc == PID_compute([p EXCEPT !.setpoint = high_level_action[3]], state_goal[3], dt)
        yc == PID_compute([y EXCEPT !.setpoint =
                              yaw_setpoint(high_level_action[4], state_goal[4])],
                          state_goal[4], dt)
        raw == rc_raw(tc.output, rc.output, pc.output, yc.output)
    IN  [throttle |-> tc.pid, roll |-> rc.pid, pitch |-> pc.pid, yaw |-> yc.pid,
         commands |-> <<tc.output, rc.output, pc.output, yc.output>>,
         rc_commands |-> [i \in 1..4 |-> astype_int(np_clip(raw[i], 1000, 2000))]]

\* compute_rc_commands(high_level_action, state_goal, dt) on the four PIDs
\* t, r, p, y: the PIDs after the call, the four PID outputs and the
\* returned vector
compute_rc_commands(t, r, p, y, high_level_action, state_goal, dt) ==
    LET tc == PID_compute([t EXCEPT !.setpoint = high_level_action[1]], state_goal[1], dt)
        rc == PID_compute([r EXCEPT !.setpoint = high_level_action[2]], state_goal[2], dt)
        pc == PID_compute([p EXCEPT !.setpoint = high_level_action[3]], state_goal[3], dt)
        yc == PID_compute([y EXCEPT !.setpoint =
                              yaw_setpoint(high_level_action[4], state_goal[4])],
                          state_goal[4], dt)
        raw == rc_raw(tc.output, rc.output, pc.output, yc.output)
    IN  [throttle |-> tc.pid, roll |-> rc.pid, pitch |-> pc.pid, yaw |-> yc.pid,
         commands |-> <<tc.output, rc.output, pc.output, yc.output>>,
         rc_commands |-> [i \in 1..4 |-> astype_int(np_clip(raw[i], 1000, 2000))]]

---------------------------------------------------------------------------
(* Inputs *)

\* desired (altitude, roll, pitch, yaw)
Actions ==
    { <<50, 50, 50, 50>>,
      <<50, 40, 60, 90>>,
      <<51, 55, 120, 90>>,
      <<130, 40, -20, 5>> }

\* current (altitude, roll, pitch, yaw, unused)
States ==
    { <<50, 50, 50, 50, 0>>,
      <<50, 50, 50, 90, 0>>,
      <<50, 40, 60,  5, 0>>,
      <<-10, 45, 50, 5, 1>> }

\* dt: -0.01 s, 0, 0.01 s, 0.02 s
Dts == {-1, 0, 1, 2}

\* one axis swept with the others held at 0.5; dt 0.01 s or 1 s
Grid == {5 * k : k \in 0..20}
AltGrid == 40..60
SweepInputs ==
    { [action |-> <<50, 50, 50, d>>, state |-> <<50, 50, 50, c, 0>>, dt |-> 1]
        : d \in Grid, c \in Grid }
    \cup
    { [action |-> <<a, 50, 50, 50>>, state |-> <<s, 50, 50, 50, 0>>, dt |-> t]
        : a \in AltGrid, s \in {45, 50, 55}, t \in {1, 100} }

---------------------------------------------------------------------------
(* The state machine *)

\* the four PID controllers __init__ builds, after its reset():
\* Kp=15 Ki=0 Kd=5; Kp=0.5 Ki=0 Kd=0.2 (twice); Kp=1.5 Ki=0 Kd=1
NewPIDs ==
    reset(PIDController(150, 0, 50), PIDController(5, 0, 2),
          PIDController(5, 0, 2), PIDController(15, 0, 10))

\* FlightController()
InitFC ==
    /\ throttle_pid = NewPIDs.throttle
    /\ roll_pid     = NewPIDs.roll
    /\ pitch_pid    = NewPIDs.pitch
    /\ yaw_pid      = NewPIDs.yaw
    /\ ff_throttle  = 1260
    /\ result = <<>>
    /\ corr = <<>>
    /\ lastOp = "init"
    /\ hist = <<>>
    /\ cleared = FALSE
    /\ calls = 0

\* the CMDS dictionary keyboard_controller starts with
DefaultCMDS ==
    [roll |-> 1500, pitch |-> 1500, throttle |-> 900, yaw |-> 1500,
     aux1 |-> 1000, aux2 |-> 1000]

\* keyboard_controller entered, before the connection to the board
InitKb ==
    /\ CMDS = DefaultCMDS
    /\ kbMode = "connecting"
    /\ sent = <<>>
    /\ kbKey = "none"
    /\ presses = 0

\* the rc_channels dictionary of server.py
DefaultChannels ==
    [roll |-> 1500, pitch |-> 1500, throttle |-> 1500, yaw |-> 1500,
     aux1 |-> 1000, aux2 |-> 1000, aux3 |-> 1000, aux4 |-> 1800]

\* server.py listening in main(), no client yet
InitSrv ==
    /\ rc_channels = DefaultChannels
    /\ srvPc = "accept"
    /\ link = "none"
    /\ c2s = <<>>
    /\ s2c = <<>>
    /\ cliPc = "start"
    /\ got = "none"
    /\ answered = "idle"
    /\ nCmds = 0

Init == InitFC /\ InitKb /\ InitSrv

Dirty(pid) == pid.integral # 0 \/ pid.previous_error # 0

\* reset()
Reset ==
    LET n == reset(throttle_pid, roll_pid, pitch_pid, yaw_pid)
    IN  /\ throttle_pid' = n.throttle
        /\ roll_pid'  = n.roll
        /\ pitch_pid' = n.pitch
        /\ yaw_pid'   = n.yaw
        /\ lastOp' = "reset"
        /\ hist' = <<>>
        /\ cleared' = (Dirty(throttle_pid) \/ Dirty(roll_pid)
                       \/ Dirty(pitch_pid) \/ Dirty(yaw_pid))
        /\ result' = <<>>
        /\ corr' = <<>>
        /\ UNCHANGED <<ff_throttle, calls, kbVars, srvVars>>

\* compute_rc_commands(action, state, dt) returning normally
Call(action, state, dt) ==
    LET n == compute_rc_commands(throttle_pid, roll_pid, pitch_pid, yaw_pid,
                                 action, state, dt)
    IN  /\ throttle_pid' = n.throttle
        /\ roll_pid'  = n.roll
        /\ pitch_pid' = n.pitch
        /\ yaw_pid'   = n.yaw
        /\ corr' = n.commands
        /\ result' = n.rc_commands
        /\ lastOp' = "compute"
        /\ hist' = Append(hist, [action |-> action, state |-> state, dt |-> dt])
        /\ calls' = calls + 1
        /\ UNCHANGED <<ff_throttle, cleared, kbVars, srvVars>>

Compute ==
    /\ calls < MaxCalls
    /\ \E action \in Actions, state \in States, dt \in Dts :
           Call(action, state, dt)

\* compute_rc_commands with a state vector that does not have five elements:
\* the unpacking on its first line raises ValueError before anything is
\* assigned
ComputeBadShape ==
    /\ lastOp # "raise"
    /\ \E state \in States :
           /\ Len(SubSeq(state, 1, 4)) # 5
           /\ lastOp' = "raise"
    /\ result' = <<>>
    /\ corr' = <<>>
    /\ UNCHANGED <<throttle_pid, roll_pid, pitch_pid, yaw_pid, ff_throttle,
                   hist, cleared, calls, kbVars, srvVars>>

Next == Compute \/ Reset \/ ComputeBadShape

Spec == Init /\ [][Next]_vars

\* isolated single calls, each made right after construction or reset()
ComputeSweep ==
    /\ calls < MaxCalls
    /\ hist = <<>>
    /\ \E in \in SweepInputs : Call(in.action, in.state, in.dt)

ResetAfterCall ==
    /\ lastOp = "compute"
    /\ Reset

NextSweep == ComputeSweep \/ ResetAfterCall \/ ComputeBadShape

SpecSweep == Init /\ [][NextSweep]_vars


---------------------------------------------------------------------------
(* keyboard_controller (src/drone.py) *)

PyMin(a, b) == IF a < b THEN a ELSE b
PyMax(a, b) == IF a > b THEN a ELSE b

\* what getch() can return: -1 ("none"), the bound keys, any other key ("x")
Keys ==
    {"none", "q", "Q", "a", "A", "d", "D", "w", "W", "e", "E",
     "KEY_RIGHT", "KEY_LEFT", "KEY_UP", "KEY_DOWN", "x"}

\* the key processing with the upper limit of the roll forgotten
process_key_no_limit(cmds, char) ==
    IF char \in {"a", "A"} THEN [cmds EXCEPT !.aux1 = 1800]
    ELSE IF char \in {"d", "D"} THEN [cmds EXCEPT !.aux1 = 1000]
    ELSE IF char \in {"w", "W"}
        THEN [cmds EXCEPT !.throttle = PyMin(2000, cmds.throttle + 10)]
    ELSE IF char \in {"e", "E"}
        THEN [cmds EXCEPT !.throttle = PyMax(900, cmds.throttle - 10)]
    ELSE IF char = "KEY_RIGHT"
        THEN [cmds EXCEPT !.roll = cmds.roll + 10]
    ELSE IF char = "KEY_LEFT"
        THEN [cmds EXCEPT !.roll = PyMax(1000, cmds.roll - 10)]
    ELSE IF char = "KEY_UP"
        THEN [cmds EXCEPT !.pitch = PyMin(2000, cmds.pitch + 10)]
    ELSE IF char = "KEY_DOWN"
        THEN [cmds EXCEPT !.pitch = PyMax(1000, cmds.pitch - 10)]
    ELSE cmds

\* the if / elif chain of the loop: CMDS after the key `char` ('q' and 'Q'
\* leave the loop and change nothing)
process_key(cmds, char) ==
    IF char \in {"q", "Q"} THEN cmds
    ELSE IF char \in {"a", "A"} THEN [cmds EXCEPT !.aux1 = 1800]
    ELSE IF char \in {"d", "D"} THEN [cmds EXCEPT !.aux1 = 1000]
    ELSE IF char \in {"w", "W"}
        THEN [cmds EXCEPT !.throttle = PyMin(2000, cmds.throttle + 10)]
    ELSE IF char \in {"e", "E"}
        THEN [cmds EXCEPT !.throttle = PyMax(900, cmds.throttle - 10)]
    ELSE IF char = "KEY_RIGHT"
        THEN [cmds EXCEPT !.roll = PyMin(2000, cmds.roll + 10)]
    ELSE IF char = "KEY_LEFT"
        THEN [cmds EXCEPT !.roll = PyMax(1000, cmds.roll - 10)]
    ELSE IF char = "KEY_UP"
        THEN [cmds EXCEPT !.pitch = PyMin(2000, cmds.pitch + 10)]
    ELSE IF char = "KEY_DOWN"
        THEN [cmds EXCEPT !.pitch = PyMax(1000, cmds.pitch - 10)]
    ELSE cmds

\* [CMDS[key] for key in CMDS_ORDER]
rc_list(cmds) ==
    <<cmds.roll, cmds.pitch, cmds.throttle, cmds.yaw, cmds.aux1, cmds.aux2>>

\* `with MSPy(...) as board`: the board connects, or board == 1 or an
\* exception makes keyboard_controller return 1
KbConnect ==
    /\ kbMode = "connecting"
    /\ \E ok \in BOOLEAN : kbMode' = IF ok THEN "running" ELSE "error"
    /\ UNCHANGED <<CMDS, sent, kbKey, presses, fcVars, srvVars>>

\* one iteration of the while loop: getch() returns `char`; `due` says
\* whether CTRL_LOOP_TIME has elapsed since the last send; `ok` whether the
\* board calls of the iteration return without raising.  The slow-message
\* block only reads the board and writes to the screen.
KbLoop(char, due, ok) ==
    /\ kbMode = "running"
    /\ char # "none" => presses < MaxKeys
    /\ kbKey' = char
    /\ presses' = IF char = "none" THEN presses ELSE presses + 1
    /\ CMDS' = process_key(CMDS, char)
    /\ IF char \in {"q", "Q"}
       THEN kbMode' = "quit" /\ sent' = <<>>
       ELSE IF ~due
       THEN kbMode' = "running" /\ sent' = <<>>
       ELSE /\ sent' = rc_list(CMDS')
            /\ kbMode' = IF ok THEN "running" ELSE "error"
    /\ UNCHANGED <<fcVars, srvVars>>

KbIteration ==
    \E char \in Keys, due \in BOOLEAN, ok \in BOOLEAN : KbLoop(char, due, ok)

\* channel values the loop reaches from DefaultCMDS by repeated key presses
KbReached ==
    { [DefaultCMDS EXCEPT !.roll = r, !.pitch = p, !.throttle = t, !.aux1 = a]
        : r \in {1000, 1010, 1500, 1990, 2000},
          p \in {1000, 1500, 2000},
          t \in {900, 910, 1990, 2000},
          a \in {1000, 1800} }

\* the keyboard loop, picked up at the start or after earlier key presses
InitKeys ==
    /\ InitFC
    /\ CMDS \in KbReached
    /\ kbMode = IF CMDS = DefaultCMDS THEN "connecting" ELSE "running"
    /\ sent = <<>>
    /\ kbKey = "none"
    /\ presses = 0
    /\ InitSrv

NextKeys == KbConnect \/ KbIteration

SpecKeys == InitKeys /\ [][NextKeys]_vars

---------------------------------------------------------------------------
(* The command server (src/server.py) and a client (src/client.py) *)

\* what a client may put on the wire
RawData == {"ping", " PING\n", "status", "bar", "arm", "Disarm", "time", "hello", " "}

\* data.decode("utf-8").strip().lower()
strip_lower(data) ==
    CASE data = " PING\n" -> "ping"
      [] data = "Disarm"  -> "disarm"
      [] data = " "       -> ""
      [] OTHER            -> data

\* what get_barometer_reading() can return; "None" when the board is None
\* or an exception was caught inside it
BarometerResults ==
    {"Altitude: 1.00 meters", "No altitude data received in this cycle.",
     "Failed to send MSP_ALTITUDE command.", "None"}

\* the response the if / elif chain leaves in `response` for the commands
\* that call nothing
simple_response(command) ==
    CASE command = "ping"   -> "pong"
      [] command = "status" -> "Server is running and ready for commands."
      [] command = "time"   -> "Server time is: 2026-01-01 00:00:00"
      [] OTHER              -> "Error: Unknown command."

\* client_socket.sendall(response.encode("utf-8")): no byte travels for ""
sendall(channel, response) ==
    IF response = "" THEN channel ELSE Append(channel, response)

\* client.py: client_socket.connect(...); the listening socket queues the
\* connection until the server accepts it
ClientConnect ==
    /\ cliPc \in {"start", "done"}
    /\ link = "none"
    /\ nCmds < MaxCmds
    /\ cliPc' = "input"
    /\ link' = "pending"
    /\ got' = "none"
    /\ UNCHANGED <<rc_channels, srvPc, c2s, s2c, answered, nCmds, fcVars, kbVars>>

\* client.py: sendall(command), then the client blocks in recv; sending on
\* a connection the server has closed raises socket.error and the client
\* closes its socket
ClientSend ==
    /\ cliPc = "input"
    /\ nCmds < MaxCmds
    /\ \E data \in RawData :
          IF link = "closed"
          THEN /\ cliPc' = "done"
               /\ link' = "none"
               /\ UNCHANGED <<c2s, nCmds>>
          ELSE /\ c2s' = Append(c2s, data)
               /\ cliPc' = "recv"
               /\ nCmds' = nCmds + 1
               /\ link' = link
    /\ UNCHANGED <<rc_channels, srvPc, s2c, got, answered, fcVars, kbVars>>

\* client.py: response = client_socket.recv(1024) returns the bytes the
\* server sent, or b"" once the server has closed the connection
ClientRecv ==
    /\ cliPc = "recv"
    /\ \/ /\ s2c # <<>>
          /\ got' = Head(s2c)
          /\ s2c' = Tail(s2c)
       \/ /\ s2c = <<>>
          /\ link = "closed"
          /\ got' = ""
          /\ s2c' = s2c
    /\ cliPc' = "input"
    /\ UNCHANGED <<rc_channels, srvPc, link, c2s, answered, nCmds, fcVars, kbVars>>

\* client.py: 'exit': the client leaves its loop and closes its socket
ClientExit ==
    /\ cliPc = "input"
    /\ cliPc' = "done"
    /\ link' = IF link = "closed" THEN "none" ELSE "left"
    /\ UNCHANGED <<rc_channels, srvPc, c2s, s2c, got, answered, nCmds, fcVars, kbVars>>

\* main(): server_socket.accept() returns a queued connection (which the
\* client may already have closed) and handle_client_connection starts
ServerAccept ==
    /\ srvPc = "accept"
    /\ link \in {"pending", "left"}
    /\ srvPc' = "recv"
    /\ link' = IF link = "pending" THEN "open" ELSE link
    /\ answered' = "idle"
    /\ UNCHANGED <<rc_channels, c2s, s2c, cliPc, got, nCmds, fcVars, kbVars>>

\* the assignments at the top of the loop of arm() / disarm()
set_aux(channels, command) ==
    IF command = "arm"
    THEN [channels EXCEPT !.aux1 = 1800, !.aux3 = 1800]
    ELSE [channels EXCEPT !.aux3 = 1000, !.aux1 = 1000]

\* the value of `response` when handle_client_connection reaches sendall:
\* "" after arm() / disarm(), the return value of get_barometer_reading()
\* for bar ("None": the call .encode on it raises AttributeError)
respond(command, outcome) ==
    IF command \in {"arm", "disarm"} THEN ""
    ELSE IF command = "bar" THEN outcome
    ELSE simple_response(command)

\* handle_client_connection: recv returns a command; the branch of the
\* command runs; the response is sent.  arm() and disarm() return at once
\* when the board does not connect (`board` false) and otherwise enter
\* their loop.
ServerHandle ==
    /\ srvPc = "recv"
    /\ c2s # <<>>
    /\ LET command == strip_lower(Head(c2s))
       IN  \E board \in BOOLEAN, outcome \in BarometerResults :
             LET response == respond(command, outcome)
             IN  /\ c2s' = Tail(c2s)
                 /\ IF command \in {"arm", "disarm"} /\ board
                    THEN /\ rc_channels' = set_aux(rc_channels, command)
                         /\ srvPc' = command
                         /\ answered' = "no"
                         /\ UNCHANGED <<s2c, link>>
                    ELSE IF response = "None"
                    THEN /\ srvPc' = "accept"
                         /\ link' = IF link = "left" THEN "none" ELSE "closed"
                         /\ answered' = "no"
                         /\ UNCHANGED <<s2c, rc_channels>>
                    ELSE /\ s2c' = sendall(s2c, response)
                         /\ answered' = IF s2c' # s2c THEN "yes" ELSE "no"
                         /\ UNCHANGED <<srvPc, link, rc_channels>>
    /\ UNCHANGED <<cliPc, got, nCmds, fcVars, kbVars>>

\* one iteration of the while True loop of arm() / disarm(): the channels
\* are set and sent; when the send raises, the loop breaks, the function
\* returns None and handle_client_connection sends the empty response
ServerLoop ==
    /\ srvPc \in {"arm", "disarm"}
    /\ rc_channels' = set_aux(rc_channels, srvPc)
    /\ \E raises \in BOOLEAN :
          IF raises
          THEN /\ srvPc' = "recv"
               /\ s2c' = sendall(s2c, respond(srvPc, "None"))
               /\ answered' = IF s2c' # s2c THEN "yes" ELSE "no"
          ELSE UNCHANGED <<srvPc, s2c, answered>>
    /\ UNCHANGED <<link, c2s, cliPc, got, nCmds, fcVars, kbVars>>

\* handle_client_connection: recv returns b"" because the client closed
\* the connection; the server closes its socket and accepts again
ServerSeesClose ==
    /\ srvPc = "recv"
    /\ c2s = <<>>
    /\ link = "left"
    /\ srvPc' = "accept"
    /\ link' = "none"
    /\ UNCHANGED <<rc_channels, c2s, s2c, cliPc, got, answered, nCmds, fcVars, kbVars>>

NextSrv ==
    \/ ClientConnect \/ ClientSend \/ ClientRecv \/ ClientExit
    \/ ServerAccept \/ ServerHandle \/ ServerLoop \/ ServerSeesClose

SpecSrv == Init /\ [][NextSrv]_vars

---------------------------------------------------------------------------
(* Properties *)

Returned == lastOp = "compute"

\* the inputs of the last call that returned since the last reset
Last == hist[Len(hist)]

Min(a, b) == IF a < b THEN a ELSE b

\* what a brand-new FlightController returns on its first call
FirstCall(action, state, dt) ==
    compute_rc_commands(NewPIDs.throttle, NewPIDs.roll, NewPIDs.pitch,
                        NewPIDs.yaw, action, state, dt).rc_commands

\* C1: whenever compute_rc_commands returns from a call with dt > 0, after
\* any earlier calls and resets and whatever the action and state values
\* (inside or outside [0,1]), each of the four returned elements is an
\* integer in [1000, 2000].
C1_ClampInvariant ==
    (Returned /\ Last.dt > 0) =>
        /\ DOMAIN result = 1..4
        /\ \A i \in 1..4 : result[i] \in 1000..2000

\* a call after a reset and an earlier call, with an input outside [0,1],
\* that returns one element at each end of the range
C1_Witness ==
    /\ Returned /\ Last.dt > 0 /\ calls >= 2 /\ Len(hist) = 1
    /\ \E i \in 1..4 : Last.action[i] \notin 0..One
    /\ \E i \in 1..4 : result[i] = 1000
    /\ \E i \in 1..4 : result[i] = 2000
    /\ \E i \in 1..4 : result[i] \notin {1000, 1260, 1500, 2000}

C3_YawShortestPath ==
    (Returned /\ Last.state[4] \in 0..One /\ Last.action[4] \in 0..One) =>
        LET d == Abs(Last.action[4] - Last.state[4])
            s == Abs(yaw_pid.setpoint - Last.state[4])
        IN  s = Min(d, One - d) /\ 2 * s <= One

\* C4: the first call after a reset, whatever calls came before the reset,
\* returns what a brand-new FlightController returns on its first call with
\* the same inputs.
C4_ResetLikeNew ==
    (Returned /\ Len(hist) = 1) =>
        result = FirstCall(Last.action, Last.state, Last.dt)

\* a first call after a reset that cleared a non-zero PID state, returning
\* something else than an all-clamped or all-neutral vector
C4_Witness ==
    /\ Returned /\ Len(hist) = 1 /\ calls >= 2 /\ cleared
    /\ \E i \in 1..4 : result[i] \notin {1000, 1260, 1500, 2000}

\* C5: with the gains and bias of __init__, the first call after
\* construction or reset with state [0.5,0.5,0.5,0.5,0], action
\* [0.5,0.5,0.5,0.5] and dt 0.01 returns [1260, 1500, 1500, 1500].
C5_NeutralCall ==
    ( /\ Returned /\ Len(hist) = 1
      /\ Last.action = <<50, 50, 50, 50>>
      /\ Last.state = <<50, 50, 50, 50, 0>>
      /\ Last.dt = 1 ) =>
        result = <<1260, 1500, 1500, 1500>>

C5_Witness ==
    /\ Returned /\ Len(hist) = 1 /\ calls >= 2 /\ cleared
    /\ Last.action = <<50, 50, 50, 50>>
    /\ Last.state = <<50, 50, 50, 50, 0>>
    /\ Last.dt = 1
    /\ throttle_pid.Kp = 150 /\ throttle_pid.Kd = 50 /\ ff_throttle = 1260

\* Kp*error + Ki*integral of a PID just after its compute()
PITerms(pid) ==
    Frac(pid.Kp * pid.previous_error * 100 + pid.Ki * pid.integral, 100000)

\* the vector compute_rc_commands builds from four PID outputs
FromCommands(c) ==
    LET raw == rc_raw(c[1], c[2], c[3], c[4])
    IN  [i \in 1..4 |-> astype_int(np_clip(raw[i], 1000, 2000))]

\* C6: a call with dt == 0 returns a command vector, and each axis's PID
\* output in it is Kp*error + Ki*integral: the derivative term is 0.
C6_ZeroDt ==
    (Returned /\ Last.dt = 0) =>
        /\ corr = <<PITerms(throttle_pid), PITerms(roll_pid),
                    PITerms(pitch_pid), PITerms(yaw_pid)>>
        /\ result = FromCommands(corr)
        /\ \A i \in 1..4 : result[i] \in 1000..2000

\* a dt == 0 call whose error differs from the previous error on an axis
\* (the derivative would not be 0) and that returns an unclamped element
C6_Witness ==
    /\ Returned /\ Last.dt = 0 /\ Len(hist) >= 2
    /\ hist[Len(hist) - 1].action[1] - hist[Len(hist) - 1].state[1]
         # Last.action[1] - Last.state[1]
    /\ result[1] \notin {1000, 1260, 2000}

\* C7: a call with negative dt is rejected: it never returns a vector.
C7_NegativeDtRejected ==
    ~(Returned /\ Last.dt < 0)

SteadyCall(h) ==
    /\ h.dt > 0
    /\ \A i \in 1..3 : h.action[i] = h.state[i]

\* C8: while every call since the reset (or construction) has had the same
\* dt > 0 and state equal to action on altitude, roll and pitch, the
\* throttle, roll and pitch PID outputs are 0 and the returned throttle,
\* roll and pitch are 1260, 1500, 1500.
C8_SteadyState ==
    ( /\ Returned
      /\ \A k \in 1..Len(hist) : SteadyCall(hist[k]) /\ hist[k].dt = hist[1].dt ) =>
        /\ \A i \in 1..3 : corr[i] = <<0, 1>>
        /\ <<result[1], result[2], result[3]>> = <<1260, 1500, 1500>>

\* two such calls in a row, on values other than 0.5 and with a yaw error
C8_Witness ==
    /\ Returned /\ Len(hist) >= 2
    /\ \A k \in 1..Len(hist) : SteadyCall(hist[k]) /\ hist[k].dt = hist[1].dt
    /\ Last.state[2] # Last.state[1]
    /\ Last.action[4] # Last.state[4]
    /\ result[4] # 1500

\* C9: for a single call right after reset (or construction) with dt > 0,
\* raising the desired altitude and keeping everything else never lowers
\* the returned throttle.
C9_ThrottleMonotone ==
    (Returned /\ Len(hist) = 1 /\ Last.dt > 0) =>
        \A a2 \in AltGrid :
            Last.action[1] <= a2 =>
                result[1] <= FirstCall([Last.action EXCEPT ![1] = a2],
                                       Last.state, Last.dt)[1]

\* a call after a reset whose throttle is strictly inside the range and
\* strictly below what a larger desired altitude gives
C9_Witness ==
    /\ Returned /\ Len(hist) = 1 /\ Last.dt > 0 /\ calls >= 2
    /\ result[1] \in 1001..1999 /\ result[1] # 1260
    /\ \E a2 \in AltGrid :
          /\ Last.action[1] < a2
          /\ result[1] < FirstCall([Last.action EXCEPT ![1] = a2],
                                   Last.state, Last.dt)[1]

SameGainsAndSetpoint(old, new) ==
    /\ new.Kp = old.Kp /\ new.Ki = old.Ki /\ new.Kd = old.Kd
    /\ new.setpoint = old.setpoint

Zeroed(pid) == pid.integral = 0 /\ pid.previous_error = 0

\* C10: a reset() step leaves integral and previous_error of all four PIDs
\* at 0 and changes no gain, no setpoint and not ff_throttle.
C10_ResetFrame ==
    [][lastOp' = "reset" =>
        /\ Zeroed(throttle_pid') /\ Zeroed(roll_pid')
        /\ Zeroed(pitch_pid') /\ Zeroed(yaw_pid')
        /\ SameGainsAndSetpoint(throttle_pid, throttle_pid')
        /\ SameGainsAndSetpoint(roll_pid, roll_pid')
        /\ SameGainsAndSetpoint(pitch_pid, pitch_pid')
        /\ SameGainsAndSetpoint(yaw_pid, yaw_pid')
        /\ ff_throttle' = ff_throttle]_vars

\* a reset that found non-zero PID state and setpoints other than 0
C10_Witness ==
    /\ lastOp = "reset" /\ cleared
    /\ throttle_pid.setpoint # 0 /\ roll_pid.setpoint # 0
    /\ pitch_pid.setpoint # 0 /\ yaw_pid.setpoint < 0
    /\ Zeroed(throttle_pid) /\ Zeroed(roll_pid)
    /\ Zeroed(pitch_pid) /\ Zeroed(yaw_pid)

\* clamp to [1000, 2000], then truncation, of base + 500 * c for a fraction
\* c = <<n, d>>, d > 0
ClampedTrunc(base, c) ==
    LET x == base * c[2] + 500 * c[1]
    IN  IF x < 1000 * c[2] THEN 1000
        ELSE IF x > 2000 * c[2] THEN 2000
        ELSE x \div c[2]

\* the output of `pid` for this call, with the setpoint the call left in it
OwnOutput(pid, setpoint, measured, dt) ==
    PID_compute([pid EXCEPT !.setpoint = setpoint], measured, dt).output

\* C12: every call that returns gives, in the order (throttle, roll, pitch,
\* yaw), the clamp to [1000, 2000] and truncation of ff_throttle + 500 *
\* throttle output, 1500 + 500 * roll output, 1500 + 500 * pitch output and
\* 1500 + 500 * yaw output, each output being that axis's own PID output
\* for this call.
C12_CommandMapping ==
    [][(lastOp' = "compute" /\ hist' # hist) =>
        LET h == hist'[Len(hist')]
        IN  result' =
              << ClampedTrunc(ff_throttle,
                     OwnOutput(throttle_pid, throttle_pid'.setpoint, h.state[1], h.dt)),
                 ClampedTrunc(1500,
                     OwnOutput(roll_pid, roll_pid'.setpoint, h.state[2], h.dt)),
                 ClampedTrunc(1500,
                     OwnOutput(pitch_pid, pitch_pid'.setpoint, h.state[3], h.dt)),
                 ClampedTrunc(1500,
                     OwnOutput(yaw_pid, yaw_pid'.setpoint, h.state[4], h.dt)) >>]_vars

\* a second call in a row whose four outputs differ from each other, with a
\* throttle and a roll strictly inside the range, a truncated fraction and
\* a clamped element
C12_Witness ==
    /\ Returned /\ Len(hist) >= 2 /\ Last.dt > 0
    /\ result[1] \in 1001..1999 /\ result[1] # 1260
    /\ result[2] \in 1001..1999 /\ result[2] # 1500
    /\ result[1] # result[2]
    /\ \E i \in 1..4 : (500 * corr[i][1]) % corr[i][2] # 0
    /\ \E i \in 1..4 : result[i] \in {1000, 2000}

\* the channel a key is bound to, "none" for 'q', other keys and no key
KeyChannel(char) ==
    CASE char \in {"a", "A", "d", "D"} -> "aux1"
      [] char \in {"w", "W", "e", "E"} -> "throttle"
      [] char \in {"KEY_RIGHT", "KEY_LEFT"} -> "roll"
      [] char \in {"KEY_UP", "KEY_DOWN"} -> "pitch"
      [] OTHER -> "none"

\* C13: in every iteration of the keyboard loop, the RC values sent have
\* roll and pitch in [1000, 2000], throttle in [900, 2000], yaw 1500, aux1
\* 1000 or 1800 and aux2 1000, and the key read changes no channel other
\* than the one it is bound to.
C13_KeyboardChannels ==
    [][ /\ sent' # <<>> =>
            /\ sent'[1] \in 1000..2000
            /\ sent'[2] \in 1000..2000
            /\ sent'[3] \in 900..2000
            /\ sent'[4] = 1500
            /\ sent'[5] \in {1000, 1800}
            /\ sent'[6] = 1000
        /\ \A ch \in DOMAIN CMDS :
              CMDS'[ch] # CMDS[ch] => ch = KeyChannel(kbKey') ]_vars

\* armed, then KEY_RIGHT pressed at the upper limit of the roll, and the
\* values sent
C13_Witness ==
    /\ kbMode = "running" /\ presses = MaxKeys /\ kbKey = "KEY_RIGHT"
    /\ sent # <<>> /\ sent[1] = 2000 /\ sent[5] = 1800
    /\ sent[3] = 900 /\ CMDS.pitch = 1500

\* C11: whenever the server is back waiting (for the next command, or for
\* the next client), it has sent response bytes for the last command it
\* received, so the client blocked in recv gets a response.
C11_EveryCommandAnswered ==
    srvPc \in {"recv", "accept"} => answered # "no"

===========================================================================
